---- MODULE Spec2Model ----
(***************************************************************************)
(* Indexing pipeline of the Zettelkasten LLM tools plugin (main.ts): the   *)
(* plugin's indexing status, progress count, settings and vector store,    *)
(* the two entry points that start an indexing run (indexVectorStores and  *)
(* the "Generate embeddings for current note" command), the settings-tab   *)
(* handlers that interleave with a run, and the bounded-concurrency        *)
(* embedding tasks of each run.                                            *)
(*                                                                         *)
(* src/semantic_search.ts (generateAndStoreEmbeddings, the concurrency     *)
(* manager) and src/vector_storage.ts (VectorStore) are imported by        *)
(* main.ts but are not part of the sources at hand; their behaviour is     *)
(* taken from the design document (sections 4.2 - 4.4 and 5).              *)
(***************************************************************************)
EXTENDS Integers, Sequences, FiniteSets, TLC

\* ------------------------------------------------------------------ bounds
MaxRuns == 2          \* handler activations (runs) per behaviour
NumDocs == 2          \* notes in the indexed note group
MaxConcurrency == 2   \* largest admission window a run may be given

Runs == 1..MaxRuns
Docs == 1..NumDocs
\* content fingerprints of a note (modification times): only their equality
\* is ever looked at
Fps == {"t1", "t2"}

\* main.ts 39-40
IDLE_STATUS == "idle"
INDEXING_STATUS == "indexing"

\* llm_client.ts 20-21: the two embedding models generateEmbeddings accepts
OPENAI_EMBEDDING_3_SMALL == "small"
OPENAI_EMBEDDING_3_LARGE == "large"
Models == {OPENAI_EMBEDDING_3_SMALL, OPENAI_EMBEDDING_3_LARGE}
\* llm_client.ts 83
unlabelledEmbeddingModel == OPENAI_EMBEDDING_3_SMALL
\* settings.embeddingsModelVersion is optional (main.ts 62)
Unset == "unset"
\* loadData() of a vault that never saved, with DEFAULT_SETTINGS (main.ts
\* 76-90) filled in by Object.assign (main.ts 358)
NoData == [vectors |-> <<>>, model |-> Unset, enabled |-> FALSE]

VARIABLES
  indexingStatus,          \* plugin.indexingStatus
  lastIndexedCount,        \* plugin.lastIndexedCount
  embeddingsEnabled,       \* settings.embeddingsEnabled
  embeddingsModelVersion,  \* settings.embeddingsModelVersion
  vectors,                 \* settings.vectors: sequence of StoredVector
  persisted,               \* what loadData returns: the settings saveData last wrote
  stores,                  \* the collection of each VectorStore object: object 0 is
                           \* built by onload, object r by handler activation r
  vectorStore,             \* plugin.vectorStore: which object it refers to
  docFp,                   \* current fingerprint of each note
  maxConcurrency,          \* the admission window the concurrency manager is built with
  runs,                    \* one record per handler activation
  clean                    \* history: the last full run indexed every note and
                           \* neither a note nor the configured model changed since

\* the variables below belong to the library functions that are checked on
\* their own (VectorStore operations, generateEmbeddings); the plugin's
\* actions leave them alone
VARIABLES
  collection,              \* a VectorStore's collection: sequence of StoredVector
  storeCall,               \* the last call on that store and what it returned
  embedCall,               \* the last generateEmbeddings call and how it settled
  modelCall                \* the last call of a model value helper and its result

\* settings.noteGroups and settings.indexedNoteGroup: only the note-group
\* handlers of the settings tab change them
VARIABLES
  noteGroups,              \* settings.noteGroups: sequence of groups
  indexedNoteGroup         \* settings.indexedNoteGroup: index from 0

\* the plugin's event bus and the settings tab's record of what it put there
VARIABLES
  bus,                     \* plugin.events: sequence of [name, callback]
  eventListeners           \* tab.eventListeners: sequence of [name, callback]

\* the GCP API key, the models discovered with it, and the activations of the
\* key field's change handler
VARIABLES
  gcpAPIKey,               \* settings.gcpAPIKey
  providerModels,          \* settings.providerModels: provider id -> models
  keyEdits                 \* one record per activation of the change handler

\* history: the last overwrite confirmation the user answered
VARIABLE dialog

\* the settings getOpenAIClient reads besides the model and the GCP key, the
\* plugin's client cache, and the key and URL fields' saves in flight
VARIABLES
  openaiAPIKey,            \* settings.openaiAPIKey
  openaiBaseUrl,           \* settings.openaiBaseUrl
  embeddingsModelProviderId, \* settings.embeddingsModelProviderId, or Unset
  clientCache,             \* plugin.clientCache: provider id -> client
  saving,                  \* saveSettings calls of the key field in flight
  obtained                 \* history: the client the last run was handed

pluginVars == <<indexingStatus, lastIndexedCount, embeddingsEnabled,
                embeddingsModelVersion, vectors, persisted, stores, vectorStore,
                docFp, maxConcurrency, runs, clean>>

libVars == <<collection, storeCall, embedCall, modelCall>>

groupVars == <<noteGroups, indexedNoteGroup>>

tabVars == <<bus, eventListeners>>

gcpVars == <<gcpAPIKey, providerModels, keyEdits>>

cacheVars == <<openaiAPIKey, openaiBaseUrl, embeddingsModelProviderId, clientCache,
               saving, obtained>>
\* what a saveSettings call leaves alone of these
clientVars == <<openaiAPIKey, openaiBaseUrl, embeddingsModelProviderId, saving, obtained>>

\* what the VectorStore operations / generateEmbeddings leave alone
notStoreVars == <<pluginVars, groupVars, tabVars, gcpVars, cacheVars, dialog, embedCall,
                 modelCall>>
notEmbedVars == <<pluginVars, groupVars, tabVars, gcpVars, cacheVars, dialog, collection,
                 storeCall, modelCall>>

vars == <<indexingStatus, lastIndexedCount, embeddingsEnabled, embeddingsModelVersion,
          vectors, persisted, stores, vectorStore, docFp, maxConcurrency, runs, clean,
          collection, storeCall, embedCall, noteGroups, indexedNoteGroup,
          bus, eventListeners, gcpAPIKey, providerModels, keyEdits, dialog,
          openaiAPIKey, openaiBaseUrl, embeddingsModelProviderId, clientCache, saving,
          obtained, modelCall>>

settingsVars == <<embeddingsEnabled, embeddingsModelVersion, vectors>>
envVars == <<docFp, maxConcurrency>>
storeVars == <<stores, vectorStore>>

\* ------------------------------------------------------------ small helpers
Min(S) == CHOOSE x \in S : \A y \in S : x <= y

SeqToSet(s) == {s[i] : i \in 1..Len(s)}

Ids(s) == {s[i].id : i \in 1..Len(s)}

\* ------------------------------------------------------------- VectorStore
\* StoredVector: identity, contentFingerprint, modelName (the vector itself is
\* not needed by the indexing pipeline).
StoredVector(d, fp, m) == [id |-> d, fp |-> fp, model |-> m]

\* index of the first record with this identity, 0 when there is none
IndexOf(s, d) ==
  IF \E i \in 1..Len(s) : s[i].id = d
  THEN Min({i \in 1..Len(s) : s[i].id = d})
  ELSE 0

\* upsert(record): replace the record with the same identity, else append
UpsertAppendAlways(s, rec) == Append(s, rec)

Upsert(s, rec) ==
  LET i == IndexOf(s, rec.id)
  IN IF i = 0 THEN Append(s, rec) ELSE [s EXCEPT ![i] = rec]

\* needsReindex(identity, contentFingerprint) against the configured model
NeedsReindex(s, d, fp, m) ==
  LET i == IndexOf(s, d)
  IN IF i = 0 THEN TRUE
     ELSE s[i].fp # fp \/ s[i].model # m

\* ------------------------------------------------------- ConcurrencyManager
\* task states of one run: "none" (not enumerated), "skip" (filtered out:
\* needsReindex false), "pending", "inflight", "ok", "failed"
Pending(t) == {d \in Docs : t[d] = "pending"}
InFlight(t) == {d \in Docs : t[d] = "inflight"}
Succeeded(t) == {d \in Docs : t[d] = "ok"}
Failed(t) == {d \in Docs : t[d] = "failed"}
Submitted(t) == {d \in Docs : t[d] \in {"pending", "inflight", "ok", "failed"}}
Completed(t) == Succeeded(t) \cup Failed(t)

\* the admission window: while the in-flight count is below the window and
\* unstarted tasks remain, admit the next task (submission order)
RECURSIVE AdmitNoWindow(_, _)
AdmitNoWindow(t, k) ==
  IF Pending(t) = {} THEN t
  ELSE AdmitNoWindow([t EXCEPT ![Min(Pending(t))] = "inflight"], k)

RECURSIVE Admit(_, _)
Admit(t, k) ==
  IF Cardinality(InFlight(t)) < k /\ Pending(t) # {}
  THEN Admit([t EXCEPT ![Min(Pending(t))] = "inflight"], k)
  ELSE t

\* done() resolves once every submitted task is terminal
DoneReady(t) == Pending(t) = {} /\ InFlight(t) = {}

\* ------------------------------------------------------------------ plugin
\* the model name a client built now is configured with (getOpenAIClient)
ConfiguredModel ==
  IF embeddingsModelVersion = Unset THEN unlabelledEmbeddingModel
  ELSE embeddingsModelVersion

NoTasks == [d \in Docs |-> "none"]

StoreIds == 0..MaxRuns
\* a run that holds no store object (yet): one past the last object
NoStore == MaxRuns + 1
\* a store object nothing refers to any more is garbage: its collection is
\* dropped from the state
Live(rs, vs) == {vs} \cup {rs[r].store : r \in {x \in Runs : rs[x].pc \in {"drain", "save2"}}}
Collect(st, rs, vs) == [g \in StoreIds |-> IF g \in Live(rs, vs) THEN st[g] ELSE <<>>]

\* pc of a handler activation: "free" (not started), "presave" (a confirmed
\* model change awaiting its saveSettings), "save1" (awaiting the saveSettings
\* at the start of a run), "drain" (awaiting done()), "save2" (awaiting the
\* saveSettings of the finally block), "done" (ended), "reported" (ended with
\* the notice "Indexed N notes").
\* pre and undisturbed are history fields: the identities in the store when
\* the run enumerated its files, and whether the notes and the configured
\* model are unchanged since then.
FreeRun == [pc |-> "free", kind |-> "none", file |-> 0, tasks |-> NoTasks,
            store |-> NoStore, model |-> Unset, pre |-> {}, undisturbed |-> FALSE]

\* a handler activation that has ended
EndedRun(pc) == [FreeRun EXCEPT !.pc = pc]

Settings == [vectors |-> vectors, model |-> embeddingsModelVersion,
             enabled |-> embeddingsEnabled]

\* the slot the next handler activation takes
HasFree == \E r \in Runs : runs[r].pc = "free"
NextFree == Min({r \in Runs : runs[r].pc = "free"})

\* the library variables when no library function is under check
NoCall == [op |-> "none"]
NoEmbedCall == [settled |-> "none"]
NoModelCall ==
  [fn |-> "none", value |-> <<>>, availableModels |-> <<>>, currentProviderId |-> <<>>,
   providerId |-> <<>>, modelName |-> <<>>, result |-> <<>>, again |-> <<>>,
   parsed |-> [providerId |-> <<>>, modelName |-> <<>>]]
LibIdle ==
  /\ collection = <<>>
  /\ storeCall = NoCall
  /\ embedCall = NoEmbedCall
  /\ modelCall = NoModelCall

\* DEFAULT_SETTINGS (main.ts 82, 84): the default note group, which is the
\* one indexed
\* (groups are told apart by a number; the default group is 0)
DEFAULT_NOTE_GROUPS == <<0>>
GroupsDefault ==
  /\ noteGroups = DEFAULT_NOTE_GROUPS
  /\ indexedNoteGroup = 0

\* the settings tab has not been opened
TabClosed ==
  /\ bus = <<>>
  /\ eventListeners = <<>>

\* key edits one behaviour makes
MaxKeyEdits == 2
KeyEdits == 1..MaxKeyEdits

\* DEFAULT_SETTINGS (main.ts 80, 89): no GCP key, no discovered models
IdleEdit == [pc |-> "free", value |-> ""]
NoKey ==
  /\ gcpAPIKey = ""
  /\ providerModels = <<>>
  /\ keyEdits = [h \in KeyEdits |-> IdleEdit]

\* no overwrite confirmation has been answered
\* a confirmation answered: the dropdown, the value chosen in it, the answer
Answered(field, model, group, confirmed) ==
  [field |-> field, model |-> model, group |-> group, confirmed |-> confirmed]

\* no overwrite confirmation has been answered
NoDialog == dialog = Answered("none", Unset, 0, FALSE)

\* ------------------------------------------------------- the client cache
\* llm_client.ts 84
quantizationDecimals == 3

\* Object.assign({}, base, over) / { ...base, ...over }
Assign(base, over) ==
  [key \in DOMAIN base \cup DOMAIN over |->
     IF key \in DOMAIN over THEN over[key] ELSE base[key]]

\* defaultOpenAIConfig (llm_client.ts 86-89)
defaultOpenAIConfig ==
  [embeddings_model |-> OPENAI_EMBEDDING_3_SMALL,
   quantization_decimals |-> quantizationDecimals]

\* main.ts 327
GCP_BASE_URL == "https://generativelanguage.googleapis.com/v1beta/openai/"

\* the settings getOpenAIClient reads
ClientSettings ==
  [openaiAPIKey |-> openaiAPIKey, openaiBaseUrl |-> openaiBaseUrl,
   gcpAPIKey |-> gcpAPIKey, embeddingsModelVersion |-> embeddingsModelVersion]

\* getOpenAIClient (main.ts 319-350), the part that builds a client for id:
\* the GCP key and URL for 'gcp' when a GCP key is set, the OpenAI key and URL
\* otherwise (no custom provider is configured, so any other id falls back);
\* the model name of the stored model value, or the unlabelled model
BuildClient(id, s) ==
  LET useGcp == id = "gcp" /\ s.gcpAPIKey # ""
      apiKey == IF useGcp THEN s.gcpAPIKey ELSE s.openaiAPIKey
      baseURL == IF useGcp THEN GCP_BASE_URL ELSE s.openaiBaseUrl
      embeddingsModel == IF s.embeddingsModelVersion = Unset
                         THEN unlabelledEmbeddingModel
                         ELSE s.embeddingsModelVersion
  IN [apiKey |-> apiKey,
      config |-> Assign(defaultOpenAIConfig,
                        [embeddings_model |-> embeddingsModel,
                         baseURL |-> IF baseURL = "" THEN "undefined" ELSE baseURL])]

\* new Map() / clientCache.clear()
EmptyCache == <<>>
ClearKeepsClients(cache) == cache
Clear(cache) == EmptyCache

\* clientCache.set(id, client) (main.ts 352)
CacheSet(cache, id, client) ==
  [p \in DOMAIN cache \cup {id} |-> IF p = id THEN client ELSE cache[p]]

\* getOpenAIClient(providerId) (main.ts 306-354): the client returned and the
\* cache afterwards
GetOpenAIClient(cache, providerId, s) ==
  LET id == IF providerId = Unset THEN "openai" ELSE providerId
  IN IF id \in DOMAIN cache
     THEN [client |-> cache[id], cache |-> cache]
     ELSE [client |-> BuildClient(id, s),
           cache |-> CacheSet(cache, id, BuildClient(id, s))]

\* the cache once saveSettings or loadSettings is through (main.ts 430-431,
\* 373-374): cleared, then the default client built
Refreshed(cache, s) == GetOpenAIClient(Clear(cache), Unset, s).cache

\* ---- the tail of a saveSettings call that succeeded (main.ts 430-431)
SaveSettingsDone == clientCache' = Refreshed(clientCache, ClientSettings')

\* a run was handed client by getOpenAIClient(providerId); next to it, the
\* client the settings prescribe for that provider at that moment
ClientObtained(providerId, client) ==
  [id |-> providerId, client |-> client,
   prescribed |-> BuildClient(IF providerId = Unset THEN "openai" ELSE providerId,
                              ClientSettings)]

\* no run has been handed a client
NoneObtained ==
  [id |-> "none", client |-> BuildClient("openai", [openaiAPIKey |-> "",
     openaiBaseUrl |-> "", gcpAPIKey |-> "", embeddingsModelVersion |-> Unset]),
   prescribed |-> BuildClient("openai", [openaiAPIKey |-> "",
     openaiBaseUrl |-> "", gcpAPIKey |-> "", embeddingsModelVersion |-> Unset])]

\* DEFAULT_SETTINGS (main.ts 77-78) and the cache loadSettings leaves
CacheDefault ==
  /\ openaiAPIKey = ""
  /\ openaiBaseUrl = ""
  /\ embeddingsModelProviderId = Unset
  /\ clientCache = Refreshed(EmptyCache, ClientSettings)
  /\ saving = 0
  /\ obtained = NoneObtained

Init ==
  /\ indexingStatus = IDLE_STATUS
  /\ lastIndexedCount = 0
  /\ embeddingsEnabled = FALSE
  /\ embeddingsModelVersion = Unset
  /\ vectors = <<>>
  /\ persisted = NoData
  /\ stores = [g \in StoreIds |-> <<>>]
  /\ vectorStore = 0
  /\ docFp = [d \in Docs |-> "t1"]
  /\ maxConcurrency \in 1..MaxConcurrency
  /\ runs = [r \in Runs |-> FreeRun]
  /\ clean = FALSE
  /\ LibIdle
  /\ GroupsDefault
  /\ TabClosed
  /\ NoKey
  /\ NoDialog
  /\ CacheDefault

Disturb(rs) == [r \in Runs |-> [rs[r] EXCEPT !.undisturbed = FALSE]]

\* ---- the settings tab's listeners
\* re-renders whose callbacks are told apart
MaxRenders == 3

\* the event names (main.ts 482-492)
INDEX_UPDATED == "index-updated"
API_KEYS_UPDATED == "api-keys-updated"

\* a callback is a closure made by one call of display(): which of the three
\* it is, and which call made it
Listener(name, kind, g) == [name |-> name, callback |-> [kind |-> kind, render |-> g]]

\* plugin.off(name, callback) for every entry of the tab's list (main.ts
\* 512-514, 525-527)
OffNothing(b, ls) == b

Off(b, ls) == SelectSeq(b, LAMBDA l : l \notin SeqToSet(ls))

\* a display() call whose closures are not on the bus
FreshRender(b) ==
  Min({g \in 1..(MaxRenders + 1) :
         \A i \in DOMAIN b : b[i].callback.render # g})

\* what display() registers, in its order (main.ts 888-889, 946-947 when
\* embeddings are enabled, 1062-1063)
Registers(enabled, g) ==
  <<Listener(API_KEYS_UPDATED, "embeddingModelsUpdateCallback", g)>>
    \o (IF enabled
        THEN <<Listener(INDEX_UPDATED, "indexUpdateCallback", g)>>
        ELSE <<>>)
    \o <<Listener(API_KEYS_UPDATED, "copilotModelsUpdateCallback", g)>>

\* display() (main.ts 520-1346): the listeners part
Display(enabled) ==
  /\ FreshRender(Off(bus, eventListeners)) <= MaxRenders
  /\ bus' = Off(bus, eventListeners)
              \o Registers(enabled, FreshRender(Off(bus, eventListeners)))
  /\ eventListeners' = Registers(enabled, FreshRender(Off(bus, eventListeners)))

\* hide() (main.ts 510-516): the listeners part
Unregistered ==
  /\ bus' = Off(bus, eventListeners)
  /\ eventListeners' = <<>>

\* the settings tab is opened
OpenTab ==
  /\ Display(embeddingsEnabled)
  /\ UNCHANGED <<pluginVars, groupVars, libVars, gcpVars, cacheVars, dialog>>

\* ---- 'Enable Embeddings' toggle (main.ts 777-782), saveSettings included
ToggleEmbeddings ==
  /\ embeddingsEnabled' = ~embeddingsEnabled
  /\ persisted' = [Settings EXCEPT !.enabled = ~embeddingsEnabled]
  /\ UNCHANGED <<indexingStatus, lastIndexedCount, embeddingsModelVersion, vectors,
                 storeVars, envVars, runs, clean>>
  /\ UNCHANGED libVars
  /\ UNCHANGED gcpVars
  /\ UNCHANGED dialog
  /\ Display(embeddingsEnabled')
  /\ UNCHANGED groupVars
  /\ UNCHANGED clientVars
  /\ SaveSettingsDone

\* ---- indexVectorStores, synchronous part (main.ts 443-452)
IndexGuardIgnoresStatus == embeddingsEnabled

IndexGuard == embeddingsEnabled /\ indexingStatus # INDEXING_STATUS

\* the guard fails: the call returns at once
IndexRejected ==
  /\ HasFree
  /\ ~IndexGuard
  /\ UNCHANGED vars

\* 'Index Notes' button (main.ts 956-959)
IndexStart ==
  /\ HasFree
  /\ IndexGuard
  /\ indexingStatus' = INDEXING_STATUS
  /\ lastIndexedCount' = 0
  /\ runs' = [runs EXCEPT ![NextFree] = [FreeRun EXCEPT !.pc = "save1", !.kind = "full"]]
  /\ UNCHANGED <<settingsVars, persisted, storeVars, envVars, clean>>
  /\ UNCHANGED libVars
  /\ UNCHANGED gcpVars
  /\ UNCHANGED dialog
  /\ UNCHANGED cacheVars
  /\ UNCHANGED tabVars
  /\ UNCHANGED groupVars

\* ---- 'Generate embeddings for current note' command (main.ts 195-203)
SingleNoteCommand(d) ==
  /\ HasFree
  /\ indexingStatus' = INDEXING_STATUS
  /\ runs' = [runs EXCEPT ![NextFree] =
                [FreeRun EXCEPT !.pc = "save1", !.kind = "single", !.file = d]]
  /\ UNCHANGED <<lastIndexedCount, settingsVars, persisted, storeVars, envVars, clean>>
  /\ UNCHANGED libVars
  /\ UNCHANGED gcpVars
  /\ UNCHANGED dialog
  /\ UNCHANGED cacheVars
  /\ UNCHANGED tabVars
  /\ UNCHANGED groupVars

\* ---- the saveSettings at the start of a run rejects
\* indexVectorStores: line 452 is outside the try, the call ends there.
\* the command: line 203 is inside the try, the finally block runs.
SaveAtStartFails(r) ==
  /\ runs[r].pc = "save1"
  /\ IF runs[r].kind = "full"
     THEN /\ runs' = [runs EXCEPT ![r] = EndedRun("done")]
          /\ UNCHANGED indexingStatus
     ELSE /\ runs' = [runs EXCEPT ![r].pc = "save2"]
          /\ indexingStatus' = IDLE_STATUS
  /\ UNCHANGED <<lastIndexedCount, settingsVars, persisted, storeVars, envVars, clean>>
  /\ UNCHANGED libVars
  /\ UNCHANGED gcpVars
  /\ UNCHANGED dialog
  /\ UNCHANGED cacheVars
  /\ UNCHANGED tabVars
  /\ UNCHANGED groupVars

\* ---- the save succeeded, then resolving the client or
\* generateAndStoreEmbeddings throws (main.ts 455-471, 206-217): finally
RunSetupFails(r) ==
  /\ runs[r].pc = "save1"
  /\ persisted' = Settings
  /\ indexingStatus' = IDLE_STATUS
  /\ runs' = [runs EXCEPT ![r].pc = "save2"]
  /\ UNCHANGED <<lastIndexedCount, settingsVars, storeVars, envVars, clean>>
  /\ UNCHANGED libVars
  /\ UNCHANGED gcpVars
  /\ UNCHANGED dialog
  /\ UNCHANGED tabVars
  /\ UNCHANGED groupVars
  /\ UNCHANGED clientVars
  /\ SaveSettingsDone

\* the files a run hands to generateAndStoreEmbeddings
FilesOf(run) == IF run.kind = "full" THEN Docs ELSE {run.file}

\* the store a run hands to generateAndStoreEmbeddings (main.ts 465, 210)
RunStoreFresh == NoStore

RunStore == vectorStore

StoreOf(g) == IF g = NoStore THEN <<>> ELSE stores[g]

\* ---- the save succeeded and generateAndStoreEmbeddings returned the
\* manager: files narrowed by needsReindex, window filled
RunEnumerate(r) ==
  /\ runs[r].pc = "save1"
  /\ persisted' = Settings
  /\ LET g == RunStore
         t == [d \in Docs |->
                 IF d \notin FilesOf(runs[r]) THEN "none"
                 ELSE IF NeedsReindex(StoreOf(g), d, docFp[d], ConfiguredModel)
                      THEN "pending" ELSE "skip"]
     IN runs' = [runs EXCEPT ![r] = [@ EXCEPT !.pc = "drain",
                                       !.tasks = Admit(t, maxConcurrency),
                                       !.store = g, !.model = ConfiguredModel,
                                       !.pre = Ids(StoreOf(g)),
                                       !.undisturbed = TRUE]]
  /\ UNCHANGED <<indexingStatus, lastIndexedCount, settingsVars, storeVars, envVars,
                 clean>>
  /\ UNCHANGED libVars
  /\ UNCHANGED gcpVars
  /\ UNCHANGED dialog
  /\ UNCHANGED tabVars
  /\ UNCHANGED groupVars
  /\ UNCHANGED <<openaiAPIKey, openaiBaseUrl, embeddingsModelProviderId, saving>>
  /\ LET saved == Refreshed(clientCache, ClientSettings)
         got == GetOpenAIClient(saved, embeddingsModelProviderId, ClientSettings)
     IN /\ clientCache' = got.cache
        /\ obtained' = ClientObtained(embeddingsModelProviderId, got.client)

\* ---- an embedding call returns: the task upserts its record into the store
\* object the run was given, which writes its collection through to
\* settings.vectors; notify(numCompleted); a replacement task is admitted
TaskSucceed(r, d) ==
  /\ runs[r].tasks[d] = "inflight"
  /\ LET g == runs[r].store
         t == Admit([runs[r].tasks EXCEPT ![d] = "ok"], maxConcurrency)
         s == Upsert(StoreOf(g), StoredVector(d, docFp[d], runs[r].model))
     IN /\ runs' = [runs EXCEPT ![r].tasks = t]
        /\ stores' = IF g = NoStore THEN stores ELSE [stores EXCEPT ![g] = s]
        /\ vectors' = s
        /\ lastIndexedCount' = Cardinality(Completed(t))
  /\ UNCHANGED <<indexingStatus, embeddingsEnabled, embeddingsModelVersion, persisted,
                 vectorStore, envVars, clean>>
  /\ UNCHANGED libVars
  /\ UNCHANGED gcpVars
  /\ UNCHANGED dialog
  /\ UNCHANGED cacheVars
  /\ UNCHANGED tabVars
  /\ UNCHANGED groupVars

\* ---- an embedding call fails: caught at the task boundary; the store is not
\* touched; notify(numCompleted); a replacement task is admitted
FailedTaskStoreDropsRecord(s, d) == SelectSeq(s, LAMBDA rec : rec.id # d)

FailedTaskStore(s, d) == s

TaskFail(r, d) ==
  /\ runs[r].tasks[d] = "inflight"
  /\ LET g == runs[r].store
         t == Admit([runs[r].tasks EXCEPT ![d] = "failed"], maxConcurrency)
     IN /\ runs' = [runs EXCEPT ![r].tasks = t]
        /\ stores' = IF g = NoStore THEN stores
                     ELSE [stores EXCEPT ![g] = FailedTaskStore(@, d)]
        /\ lastIndexedCount' = Cardinality(Completed(t))
  /\ UNCHANGED <<indexingStatus, settingsVars, persisted, vectorStore, envVars, clean>>
  /\ UNCHANGED libVars
  /\ UNCHANGED gcpVars
  /\ UNCHANGED dialog
  /\ UNCHANGED cacheVars
  /\ UNCHANGED tabVars
  /\ UNCHANGED groupVars

\* ---- 'await concurrencyManager.done()' (main.ts 472, 218) returns; the
\* finally block sets the status and starts the last saveSettings (main.ts
\* 475-478, 219-221)
AwaitDoneSkipped(t) == TRUE

AwaitDone(t) == DoneReady(t)

DoneResolves(r) ==
  /\ runs[r].pc = "drain"
  /\ AwaitDone(runs[r].tasks)
  /\ indexingStatus' = IDLE_STATUS
  /\ runs' = [runs EXCEPT ![r].pc = "save2"]
  /\ clean' = IF runs[r].kind = "full" /\ runs[r].undisturbed
                 /\ Failed(runs[r].tasks) = {}
              THEN TRUE ELSE clean
  /\ UNCHANGED <<lastIndexedCount, settingsVars, persisted, storeVars, envVars>>
  /\ UNCHANGED libVars
  /\ UNCHANGED gcpVars
  /\ UNCHANGED dialog
  /\ UNCHANGED cacheVars
  /\ UNCHANGED tabVars
  /\ UNCHANGED groupVars

\* ---- the saveSettings of the finally block returns; indexVectorStores
\* then shows "Indexed N notes" (main.ts 478-479)
SaveAtEndComplete(r, ok) ==
  /\ runs[r].pc = "save2"
  /\ persisted' = IF ok THEN Settings ELSE persisted
  /\ runs' = [runs EXCEPT ![r] =
                EndedRun(IF ok /\ runs[r].kind = "full" THEN "reported" ELSE "done")]
  /\ stores' = Collect(stores, runs', vectorStore)
  /\ UNCHANGED <<indexingStatus, lastIndexedCount, settingsVars, vectorStore, envVars,
                 clean>>
  /\ UNCHANGED libVars
  /\ UNCHANGED gcpVars
  /\ UNCHANGED dialog
  /\ UNCHANGED tabVars
  /\ UNCHANGED groupVars
  /\ UNCHANGED clientVars
  /\ IF ok THEN SaveSettingsDone ELSE UNCHANGED clientCache

\* ---- clearVectorArray (main.ts 421-425) after a confirmed change of the
\* embedding model (main.ts 838-846); the handler then awaits saveSettings
ModelOverwritten(m) ==
  /\ HasFree
  /\ embeddingsModelVersion' = m
  /\ vectors' = <<>>
  /\ vectorStore' = NextFree
  /\ stores' = Collect([stores EXCEPT ![NextFree] = <<>>], runs, NextFree)
  /\ lastIndexedCount' = 0
  /\ runs' = [Disturb(runs) EXCEPT ![NextFree] =
                [FreeRun EXCEPT !.pc = "presave", !.kind = "full"]]
  /\ clean' = FALSE
  /\ UNCHANGED <<indexingStatus, embeddingsEnabled, persisted, envVars>>
  /\ UNCHANGED libVars
  /\ UNCHANGED gcpVars
  /\ UNCHANGED tabVars
  /\ UNCHANGED groupVars
  /\ embeddingsModelProviderId' = "openai"
  /\ UNCHANGED <<openaiAPIKey, openaiBaseUrl, clientCache, saving, obtained>>

\* the callback's test after the confirmation (main.ts 834-840, 904-910):
\* confirmed, and a value other than the current one
OverwriteProceedsUnasked(confirmWasClicked, value, current) == value # current

OverwriteProceeds(confirmWasClicked, value, current) ==
  confirmWasClicked /\ value # current

\* the user confirms a change to another model
ConfirmModelChange(m) ==
  /\ m # embeddingsModelVersion
  /\ ModelOverwritten(m)
  /\ UNCHANGED dialog

\* ---- the embedding model dropdown's onChange with the answer given to the
\* confirmation (main.ts 831-853), up to its await of saveSettings
ModelDropdown(value, confirmWasClicked) ==
  /\ dialog' = Answered("model", value, 0, confirmWasClicked)
  /\ IF OverwriteProceeds(confirmWasClicked, value, embeddingsModelVersion)
     THEN ModelOverwritten(value)
     ELSE UNCHANGED <<pluginVars, groupVars, tabVars, gcpVars, cacheVars, libVars>>

\* ---- the handler's saveSettings rejects: indexVectorStores is not called
ChangeSaveFails(r) ==
  /\ runs[r].pc = "presave"
  /\ runs' = [runs EXCEPT ![r] = EndedRun("done")]
  /\ UNCHANGED <<indexingStatus, lastIndexedCount, settingsVars, persisted,
                 storeVars, envVars, clean>>
  /\ UNCHANGED libVars
  /\ UNCHANGED gcpVars
  /\ UNCHANGED dialog
  /\ UNCHANGED cacheVars
  /\ UNCHANGED tabVars
  /\ UNCHANGED groupVars

\* ---- the handler's saveSettings returns and it calls indexVectorStores
\* (main.ts 847-848), whose guard fails
ChangeIndexRejected(r) ==
  /\ runs[r].pc = "presave"
  /\ ~IndexGuard
  /\ persisted' = Settings
  /\ runs' = [runs EXCEPT ![r] = EndedRun("done")]
  /\ UNCHANGED <<indexingStatus, lastIndexedCount, settingsVars, storeVars, envVars,
                 clean>>
  /\ UNCHANGED libVars
  /\ UNCHANGED gcpVars
  /\ UNCHANGED dialog
  /\ UNCHANGED tabVars
  /\ UNCHANGED groupVars
  /\ UNCHANGED clientVars
  /\ SaveSettingsDone

\* ---- ... whose guard passes
ChangeIndexStart(r) ==
  /\ runs[r].pc = "presave"
  /\ IndexGuard
  /\ persisted' = Settings
  /\ indexingStatus' = INDEXING_STATUS
  /\ lastIndexedCount' = 0
  /\ runs' = [runs EXCEPT ![r].pc = "save1"]
  /\ UNCHANGED <<settingsVars, storeVars, envVars, clean>>
  /\ UNCHANGED libVars
  /\ UNCHANGED gcpVars
  /\ UNCHANGED dialog
  /\ UNCHANGED tabVars
  /\ UNCHANGED groupVars
  /\ UNCHANGED clientVars
  /\ SaveSettingsDone

\* ---- the settings tab is closed: hide() calls loadSettings (main.ts 510-518,
\* 356-367)
Hide ==
  /\ LET loaded == persisted
         relabel == loaded.model = Unset /\ Len(loaded.vectors) # 0
     IN /\ vectors' = loaded.vectors
        /\ embeddingsModelVersion' =
             IF relabel THEN unlabelledEmbeddingModel ELSE loaded.model
        /\ embeddingsEnabled' = IF relabel THEN TRUE ELSE loaded.enabled
        /\ lastIndexedCount' = IF Len(loaded.vectors) # 0 THEN Len(loaded.vectors)
                               ELSE lastIndexedCount
  /\ runs' = IF embeddingsModelVersion' # embeddingsModelVersion
             THEN Disturb(runs) ELSE runs
  /\ clean' = IF embeddingsModelVersion' # embeddingsModelVersion THEN FALSE ELSE clean
  /\ UNCHANGED <<indexingStatus, persisted, storeVars, envVars>>
  /\ UNCHANGED libVars
  /\ UNCHANGED gcpVars
  /\ UNCHANGED dialog
  /\ Unregistered
  /\ UNCHANGED groupVars
  /\ UNCHANGED clientVars
  /\ SaveSettingsDone

\* ---- the user edits a note: its fingerprint changes
ModifyDoc(d, fp) ==
  /\ fp # docFp[d]
  /\ docFp' = [docFp EXCEPT ![d] = fp]
  /\ runs' = Disturb(runs)
  /\ clean' = FALSE
  /\ UNCHANGED <<indexingStatus, lastIndexedCount, settingsVars, persisted, storeVars,
                 maxConcurrency>>
  /\ UNCHANGED libVars
  /\ UNCHANGED gcpVars
  /\ UNCHANGED dialog
  /\ UNCHANGED cacheVars
  /\ UNCHANGED tabVars
  /\ UNCHANGED groupVars

\* the steps of an indexing run that is under way
RunStep(r) ==
  \/ SaveAtStartFails(r)
  \/ RunSetupFails(r)
  \/ RunEnumerate(r)
  \/ \E d \in Docs : TaskSucceed(r, d)
  \/ \E d \in Docs : TaskFail(r, d)
  \/ DoneResolves(r)
  \/ \E ok \in BOOLEAN : SaveAtEndComplete(r, ok)

\* the steps of a confirmed model change that awaits its saveSettings
ChangeStep(r) ==
  \/ ChangeSaveFails(r)
  \/ ChangeIndexRejected(r)
  \/ ChangeIndexStart(r)

\* no handler activation is under way
Quiet == \A r \in Runs : runs[r].pc \in {"free", "done", "reported"}

\* The plugin with its settings tab and both entry points.
Next ==
  \/ ToggleEmbeddings
  \/ IndexRejected
  \/ IndexStart
  \/ \E d \in Docs : SingleNoteCommand(d)
  \/ \E m \in Models : ConfirmModelChange(m)
  \/ Hide
  \/ \E r \in Runs : RunStep(r)
  \/ \E r \in Runs : ChangeStep(r)

Spec == Init /\ [][Next]_vars

\* The plugin loaded from data that has embeddings enabled and driven through
\* the 'Index Notes' button only, with notes edited between runs.
InitEnabled ==
  /\ indexingStatus = IDLE_STATUS
  /\ lastIndexedCount = 0
  /\ embeddingsEnabled = TRUE
  /\ embeddingsModelVersion = Unset
  /\ vectors = <<>>
  /\ persisted = [NoData EXCEPT !.enabled = TRUE]
  /\ stores = [g \in StoreIds |-> <<>>]
  /\ vectorStore = 0
  /\ docFp = [d \in Docs |-> "t1"]
  /\ maxConcurrency \in 1..MaxConcurrency
  /\ runs = [r \in Runs |-> FreeRun]
  /\ clean = FALSE
  /\ LibIdle
  /\ GroupsDefault
  /\ TabClosed
  /\ NoKey
  /\ NoDialog
  /\ CacheDefault

NextSeq ==
  \/ IndexRejected
  \/ IndexStart
  \/ \E d \in Docs, fp \in Fps : Quiet /\ ModifyDoc(d, fp)
  \/ \E r \in Runs : RunStep(r)

SpecSeq == InitEnabled /\ [][NextSeq]_vars

\* The same without edits, with the scheduling the event loop guarantees: a
\* settled promise's continuation runs, and (the hypothesis of the drain
\* property) every embedding call that was issued returns or fails.
NextRun ==
  \/ IndexRejected
  \/ IndexStart
  \/ \E r \in Runs : RunStep(r)

\* the same steps without the scheduling hypothesis
SpecRun == InitEnabled /\ [][NextRun]_vars

FairRun ==
  /\ InitEnabled
  /\ [][NextRun]_vars
  /\ \A r \in Runs : WF_vars(DoneResolves(r))
  /\ \A r \in Runs : \A d \in Docs : WF_vars(TaskSucceed(r, d) \/ TaskFail(r, d))

\* ------------------------------------------------- VectorStore on its own
\* The store's operations applied in any order to one collection, with the
\* plugin at rest.
\* vectors of two components; <<1, 0>> and <<2, 0>> point the same way,
\* <<0, 0>> has no magnitude
Vecs == {<<0, 0>>, <<1, 0>>, <<2, 0>>, <<1, 1>>}

VectorRecord(d, m, v) == [id |-> d, fp |-> "t1", model |-> m, vector |-> v]

Dot(a, b) == a[1] * b[1] + a[2] * b[2]

Sgn(x) == IF x > 0 THEN 1 ELSE IF x < 0 THEN -1 ELSE 0

\* cosine similarity of the query q with the stored vector v, kept exact: the
\* fraction num / den is sgn(cos) * cos^2 * |q|^2, which orders as cos does
\* for one query; a vector of zero magnitude has similarity 0 with everything
Score(q, v) ==
  IF Dot(q, q) = 0 \/ Dot(v, v) = 0 THEN [num |-> 0, den |-> 1]
  ELSE [num |-> Sgn(Dot(q, v)) * Dot(q, v) * Dot(q, v), den |-> Dot(v, v)]

Higher(a, b) == a.num * b.den > b.num * a.den
SameScore(a, b) == a.num * b.den = b.num * a.den

\* the records a query for model m looks at
QueryMatchesAnyModel(rec, m) == TRUE

QueryMatches(rec, m) == rec.model = m

\* stable sort, descending by score: each entry goes behind the entries that
\* score at least as high
InsertByScoreBeforeEqual(sorted, x) ==
  LET before == SelectSeq(sorted, LAMBDA y : Higher(y.score, x.score))
      after == SelectSeq(sorted, LAMBDA y : ~Higher(y.score, x.score))
  IN before \o <<x>> \o after

InsertByScore(sorted, x) ==
  LET before == SelectSeq(sorted, LAMBDA y : ~Higher(x.score, y.score))
      after == SelectSeq(sorted, LAMBDA y : Higher(x.score, y.score))
  IN before \o <<x>> \o after

RECURSIVE SortByScore(_)
SortByScore(s) ==
  IF s = <<>> THEN <<>>
  ELSE InsertByScore(SortByScore(SubSeq(s, 1, Len(s) - 1)), s[Len(s)])

\* querySimilar(queryVector, k, modelName)
QuerySimilar(s, q, k, m) ==
  LET matching == SelectSeq(s, LAMBDA rec : QueryMatches(rec, m))
      scored == [i \in 1..Len(matching) |->
                   [id |-> matching[i].id, score |-> Score(q, matching[i].vector)]]
      sorted == SortByScore(scored)
  IN SubSeq(sorted, 1, IF k < Len(sorted) THEN k ELSE Len(sorted))

\* remove(identity): deletes the record if present, no-op otherwise
Remove(s, d) == SelectSeq(s, LAMBDA rec : rec.id # d)

StoreUpsert(d, m, v) ==
  /\ collection' = Upsert(collection, VectorRecord(d, m, v))
  /\ storeCall' = [op |-> "upsert", rec |-> VectorRecord(d, m, v)]
  /\ UNCHANGED notStoreVars

StoreRemove(d) ==
  /\ collection' = Remove(collection, d)
  /\ storeCall' = [op |-> "remove", id |-> d]
  /\ UNCHANGED notStoreVars

StoreClear ==
  /\ collection' = <<>>
  /\ storeCall' = [op |-> "clear"]
  /\ UNCHANGED notStoreVars

StoreQuery(q, k, m) ==
  /\ storeCall' = [op |-> "query", query |-> q, k |-> k, model |-> m,
                   result |-> QuerySimilar(collection, q, k, m)]
  /\ UNCHANGED collection
  /\ UNCHANGED notStoreVars

NextStore ==
  \/ \E d \in Docs, m \in Models, v \in Vecs : StoreUpsert(d, m, v)
  \/ \E d \in Docs : StoreRemove(d)
  \/ StoreClear
  \/ \E q \in Vecs, k \in 0..NumDocs, m \in Models : StoreQuery(q, k, m)

InitStore == Init /\ maxConcurrency = 1

SpecStore == InitStore /\ [][NextStore]_vars

\* ---------------------------------------------- generateEmbeddings on its own
\* components of an embedding the service returns
EmbeddingLen == 2

\* no client handed to generateEmbeddings
\* (the fields of an absent client are never read: llm_client.ts 195)
NoClient == [present |-> FALSE, given |-> <<>>, config |-> defaultOpenAIConfig]
\* new OpenAIClient(apiKey, config) (llm_client.ts 131-132)
NewOpenAIClient(config) ==
  [present |-> TRUE, given |-> config, config |-> Assign(defaultOpenAIConfig, config)]

\* the configurations a client is built with: by the plugin (main.ts
\* 347-350: the model only; 582-584, 680-682: neither model nor precision),
\* and with another precision
ClientConfigs ==
  {<<>>}
    \cup {[embeddings_model |-> m] : m \in Models}
    \cup {[embeddings_model |-> m, quantization_decimals |-> 2] : m \in Models}

Clients == {NoClient} \cup {NewOpenAIClient(c) : c \in ClientConfigs}

\* the text argument: undefined, the empty string, a note's text
Texts == {"undefined", "", "note"}
\* the modelName argument: the two known models and any other name
ModelNames == Models \cup {"custom"}

\* A number, as sign and magnitude in units of 1/256000: this holds the
\* doubles with 11 fraction bits (multiples of 125) and the decimals of up to
\* three places (multiples of 256) exactly. Zero has a sign, as in JavaScript.
Num(neg, mag) == [neg |-> neg, mag |-> mag]

\* -1/2048, 0.0625 (half-way between 0.062 and 0.063), 0.063, -0.063, 0, -0
Values ==
  {Num(TRUE, 125), Num(FALSE, 16000), Num(FALSE, 16128), Num(TRUE, 16128),
   Num(FALSE, 0), Num(TRUE, 0)}

\* one unit of the last of d decimal places
Unit(d) == 256000 \div (10 ^ d)

\* Number(value.toFixed(d)) (llm_client.ts 176-178). toFixed writes "-" when
\* value < 0 (not for -0), then the nearest multiple of 10^-d of the
\* magnitude, the larger one when two are as near; Number reads the text
\* back, "-0.000" as -0.
QuantizeKeepsValue(x, d) == x

Quantize(x, d) ==
  Num(x.neg /\ x.mag > 0, ((2 * x.mag + Unit(d)) \div (2 * Unit(d))) * Unit(d))

\* what the service answers for one input text: one embedding
Replies == [1..EmbeddingLen -> Values]

\* !text (llm_client.ts 188)
TextMissingOnlyUndefined(text) == text = "undefined"

TextMissing(text) == text \in {"undefined", ""}

\* !openaiClient (llm_client.ts 195)
ClientMissingNotChecked(client) == FALSE

ClientMissing(client) == ~client.present

Rejected(text, modelName, client, error, requests) ==
  [settled |-> "rejected", text |-> text, modelName |-> modelName, client |-> client,
   error |-> error, requests |-> requests, reply |-> <<>>, vector |-> <<>>]

\* generateOpenAiEmbeddings returned (llm_client.ts 164-180): one request,
\* every component of the first embedding quantized
Resolved(text, modelName, client, reply) ==
  [settled |-> "resolved", text |-> text, modelName |-> modelName, client |-> client,
   error |-> "", requests |-> 1, reply |-> reply,
   vector |-> [i \in 1..Len(reply) |->
                 Quantize(reply[i], client.config.quantization_decimals)]]

\* generateEmbeddings(text, modelName, openaiClient) (llm_client.ts 183-200),
\* the remote request and its answer included
GenerateEmbeddings(text, modelName, client) ==
  /\ IF TextMissing(text)
     THEN embedCall' = Rejected(text, modelName, client, "No text provided", 0)
     ELSE IF modelName \in Models
     THEN IF ClientMissing(client)
          THEN embedCall' = Rejected(text, modelName, client, "client not initialized", 0)
          ELSE \/ \E reply \in Replies :
                    embedCall' = Resolved(text, modelName, client, reply)
               \/ embedCall' = Rejected(text, modelName, client, "request failed", 1)
     ELSE embedCall' = Rejected(text, modelName, client, "Unknown embedding model", 0)
  /\ UNCHANGED notEmbedVars

NextEmbed ==
  \E text \in Texts, modelName \in ModelNames, client \in Clients :
    GenerateEmbeddings(text, modelName, client)

SpecEmbed == InitStore /\ [][NextEmbed]_vars

\* ------------------------------------------------- loadSettings on its own
\* DEFAULT_SETTINGS (main.ts 76-90): no embeddingsModelVersion among them
DEFAULT_SETTINGS == [openaiAPIKey |-> "", vectors |-> <<>>, enabled |-> FALSE]

\* loadData() of a vault without a data file
NullData == [null |-> TRUE]

\* the keys Object.assign copies from the loaded data: none from null
OwnKeys(data) == IF "null" \in DOMAIN data THEN {} ELSE DOMAIN data

\* o.embeddingsModelVersion, undefined when o has none (o?. for null)
ModelOf(o) == IF "model" \in OwnKeys(o) THEN o.model ELSE Unset

\* vectors entries a data file may hold
VectorEntries ==
  {<<>>, <<StoredVector(1, "t1", OPENAI_EMBEDDING_3_SMALL)>>,
   <<StoredVector(2, "t2", OPENAI_EMBEDDING_3_SMALL)>>,
   <<StoredVector(1, "t1", OPENAI_EMBEDDING_3_LARGE),
     StoredVector(2, "t1", OPENAI_EMBEDDING_3_LARGE)>>}

\* A data file: none, or an object holding an API key and any of the vectors,
\* embeddingsModelVersion and embeddingsEnabled entries.
DataFiles ==
  {NullData}
    \cup {[openaiAPIKey |-> "key"]}
    \cup {[openaiAPIKey |-> "key", vectors |-> v] : v \in VectorEntries}
    \cup {[openaiAPIKey |-> "key", model |-> m] : m \in Models}
    \cup {[openaiAPIKey |-> "key", enabled |-> e] : e \in BOOLEAN}
    \cup {[openaiAPIKey |-> "key", vectors |-> v, model |-> m] :
            v \in VectorEntries, m \in Models}
    \cup {[openaiAPIKey |-> "key", vectors |-> v, enabled |-> e] :
            v \in VectorEntries, e \in BOOLEAN}
    \cup {[openaiAPIKey |-> "key", model |-> m, enabled |-> e] :
            m \in Models, e \in BOOLEAN}
    \cup {[openaiAPIKey |-> "key", vectors |-> v, model |-> m, enabled |-> e] :
            v \in VectorEntries, m \in Models, e \in BOOLEAN}

\* Object.assign({}, DEFAULT_SETTINGS, loadedSettings) (main.ts 358)
AssignLoaded(loadedSettings) ==
  Assign(DEFAULT_SETTINGS, [key \in OwnKeys(loadedSettings) |-> loadedSettings[key]])

\* !loadedSettings?.embeddingsModelVersion && settings.vectors.length !== 0
\* (main.ts 359)
NeedsLabelWithoutVectors(loadedSettings, settings) == ModelOf(loadedSettings) = Unset

NeedsLabel(loadedSettings, settings) ==
  ModelOf(loadedSettings) = Unset /\ Len(settings.vectors) # 0

\* loadSettings() (main.ts 356-376) on a data file of any shape; the model
\* values here are already in the providerId:modelName form, which
\* migrateModelSettings leaves alone, and getOpenAIClient() without a
\* provider does not throw.
LoadSettings ==
  /\ LET loadedSettings == persisted
         settings == AssignLoaded(loadedSettings)
         relabel == NeedsLabel(loadedSettings, settings)
     IN /\ vectors' = settings.vectors
        /\ embeddingsModelVersion' =
             IF relabel THEN unlabelledEmbeddingModel ELSE ModelOf(settings)
        /\ embeddingsEnabled' = IF relabel THEN TRUE ELSE settings.enabled
        /\ lastIndexedCount' = IF Len(settings.vectors) # 0 THEN Len(settings.vectors)
                               ELSE lastIndexedCount
  /\ runs' = IF embeddingsModelVersion' # embeddingsModelVersion
             THEN Disturb(runs) ELSE runs
  /\ clean' = IF embeddingsModelVersion' # embeddingsModelVersion THEN FALSE ELSE clean
  /\ UNCHANGED <<indexingStatus, persisted, storeVars, envVars>>
  /\ UNCHANGED libVars
  /\ UNCHANGED gcpVars
  /\ UNCHANGED dialog
  /\ UNCHANGED tabVars
  /\ UNCHANGED groupVars
  /\ UNCHANGED clientVars
  /\ SaveSettingsDone

\* the plugin over any data file, before onload's loadSettings
InitLoad ==
  /\ indexingStatus = IDLE_STATUS
  /\ lastIndexedCount = 0
  /\ embeddingsEnabled = FALSE
  /\ embeddingsModelVersion = Unset
  /\ vectors = <<>>
  /\ persisted \in DataFiles
  /\ stores = [g \in StoreIds |-> <<>>]
  /\ vectorStore = 0
  /\ docFp = [d \in Docs |-> "t1"]
  /\ maxConcurrency \in 1..MaxConcurrency
  /\ runs = [r \in Runs |-> FreeRun]
  /\ clean = FALSE
  /\ LibIdle
  /\ GroupsDefault
  /\ TabClosed
  /\ NoKey
  /\ NoDialog
  /\ CacheDefault

NextLoad ==
  \/ LoadSettings
  \/ ToggleEmbeddings

SpecLoad == InitLoad /\ [][NextLoad]_vars

\* ----------------------------------------- note groups in the settings tab
\* groups the settings tab is taken to
MaxGroups == 3

\* noteGroups.splice(i, 1), i counted from 0
Splice(s, i) == [k \in 1..(Len(s) - 1) |-> IF k <= i THEN s[k] ELSE s[k + 1]]

\* newNoteGroup (main.ts 1335-1339): a group that is none of the present ones
NewNoteGroup == Min({g \in 1..MaxGroups : g \notin SeqToSet(noteGroups)})

\* ---- 'Add Note Group' button (main.ts 1329-1344), saveSettings included
AddNoteGroup ==
  /\ Len(noteGroups) < MaxGroups
  /\ noteGroups' = Append(noteGroups, NewNoteGroup)
  /\ persisted' = Settings
  /\ UNCHANGED <<indexingStatus, lastIndexedCount, settingsVars, storeVars, envVars,
                 runs, clean, indexedNoteGroup>>
  /\ UNCHANGED libVars
  /\ UNCHANGED gcpVars
  /\ UNCHANGED dialog
  /\ Display(embeddingsEnabled)
  /\ UNCHANGED clientVars
  /\ SaveSettingsDone

\* ---- 'Delete Note Group' of group i, confirmed (main.ts 1295-1326): the
\* button exists for i # 0 when there is more than one group
DeleteNoteGroup(i) ==
  /\ i # 0
  /\ Len(noteGroups) > 1
  /\ i \in 0..(Len(noteGroups) - 1)
  /\ noteGroups' = Splice(noteGroups, i)
  /\ persisted' = Settings
  /\ UNCHANGED <<indexingStatus, lastIndexedCount, settingsVars, storeVars, envVars,
                 runs, clean, indexedNoteGroup>>
  /\ UNCHANGED libVars
  /\ UNCHANGED gcpVars
  /\ UNCHANGED dialog
  /\ Display(embeddingsEnabled)
  /\ UNCHANGED clientVars
  /\ SaveSettingsDone

\* ---- 'Note group to index' dropdown, confirmed (main.ts 891-920), up to its
\* await of saveSettings: the options are the indices of the groups shown,
\* clearVectorArray (421-425) included. The handler goes on as the model
\* change does (913-914 as 847-848).
GroupOverwritten(newIndex) ==
  /\ HasFree
  /\ newIndex \in 0..(Len(noteGroups) - 1)
  /\ indexedNoteGroup' = newIndex
  /\ vectors' = <<>>
  /\ vectorStore' = NextFree
  /\ stores' = Collect([stores EXCEPT ![NextFree] = <<>>], runs, NextFree)
  /\ lastIndexedCount' = 0
  /\ runs' = [Disturb(runs) EXCEPT ![NextFree] =
                [FreeRun EXCEPT !.pc = "presave", !.kind = "full"]]
  /\ clean' = FALSE
  /\ UNCHANGED <<indexingStatus, embeddingsEnabled, embeddingsModelVersion, persisted,
                 envVars, noteGroups>>
  /\ UNCHANGED libVars
  /\ UNCHANGED gcpVars
  /\ UNCHANGED tabVars
  /\ UNCHANGED cacheVars

ConfirmNoteGroup(newIndex) ==
  /\ newIndex # indexedNoteGroup
  /\ GroupOverwritten(newIndex)
  /\ UNCHANGED dialog

\* ---- the dropdown's onChange with the answer given to the confirmation
GroupDropdown(newIndex, confirmWasClicked) ==
  /\ newIndex \in 0..(Len(noteGroups) - 1)
  /\ dialog' = Answered("group", Unset, newIndex, confirmWasClicked)
  /\ IF OverwriteProceeds(confirmWasClicked, newIndex, indexedNoteGroup)
     THEN GroupOverwritten(newIndex)
     ELSE UNCHANGED <<pluginVars, groupVars, tabVars, gcpVars, cacheVars, libVars>>

\* The settings tab's note-group handlers and the indexing they start.
NextGroups ==
  \/ AddNoteGroup
  \/ \E i \in 0..(MaxGroups - 1) : DeleteNoteGroup(i)
  \/ \E newIndex \in 0..(MaxGroups - 1) : ConfirmNoteGroup(newIndex)
  \/ \E r \in Runs : RunStep(r)
  \/ \E r \in Runs : ChangeStep(r)

SpecGroups == InitEnabled /\ [][NextGroups]_vars

\* ------------------------------------------- the settings tab's listeners
\* The tab opened, re-rendered by its handlers and closed.
NextTab ==
  \/ OpenTab
  \/ Hide
  \/ ToggleEmbeddings
  \/ AddNoteGroup
  \/ \E i \in 0..(MaxGroups - 1) : DeleteNoteGroup(i)

\* settings a data file written by saveSettings may hold
SavedSettings ==
  {[vectors |-> v, model |-> m, enabled |-> e] :
     v \in VectorEntries, m \in Models \cup {Unset}, e \in BOOLEAN}

\* the plugin after onload (main.ts 184-188) over such a data file
InitSaved ==
  /\ persisted \in SavedSettings
  /\ indexingStatus = IDLE_STATUS
  /\ vectors = persisted.vectors
  /\ embeddingsModelVersion =
       IF NeedsLabel(persisted, persisted) THEN unlabelledEmbeddingModel
       ELSE persisted.model
  /\ embeddingsEnabled = (NeedsLabel(persisted, persisted) \/ persisted.enabled)
  /\ lastIndexedCount = Len(vectors)
  /\ stores = [g \in StoreIds |-> IF g = 0 THEN vectors ELSE <<>>]
  /\ vectorStore = 0
  /\ docFp = [d \in Docs |-> "t1"]
  /\ maxConcurrency \in 1..MaxConcurrency
  /\ runs = [r \in Runs |-> FreeRun]
  /\ clean = FALSE
  /\ LibIdle
  /\ GroupsDefault
  /\ TabClosed
  /\ NoKey
  /\ NoDialog
  /\ CacheDefault

SpecTab == InitSaved /\ [][NextTab]_vars

\* ------------------------------------ the dropdowns that ask before they act
\* The two dropdowns with either answer, over any saved settings, up to the
\* indexVectorStores call a confirmed change ends with.
NextChoice ==
  \/ \E value \in Models, c \in BOOLEAN : ModelDropdown(value, c)
  \/ \E newIndex \in 0..(MaxGroups - 1), c \in BOOLEAN : GroupDropdown(newIndex, c)
  \/ AddNoteGroup
  \/ \E r \in Runs : ChangeStep(r)

SpecChoice == InitSaved /\ [][NextChoice]_vars

\* ------------------------------------------------- the GCP API key field
\* what the user types into the field: nothing, or one of two keys
KeyValues == {"", "key1", "key2"}

\* providerModels['gcp'] = { chat, embedding } (main.ts 611-614): the models
\* the service listed for the key the handler was called with
WithGcp(pm, value) == [p \in DOMAIN pm \cup {"gcp"} |-> [listedFor |-> value]]

\* delete providerModels['gcp'] (main.ts 623-626)
WithoutGcp(pm) == [p \in DOMAIN pm \ {"gcp"} |-> pm[p]]

\* the edit the next activation of the handler is
HasFreeEdit == \E h \in KeyEdits : keyEdits[h].pc = "free"
NextFreeEdit == Min({h \in KeyEdits : keyEdits[h].pc = "free"})

\* ---- GCP API Key onChange (main.ts 575-630) up to its first await: the key
\* is set; a non-empty value awaits models.list(), an empty one removes the
\* discovered models and awaits saveSettings
GcpKeyChange(value) ==
  /\ HasFreeEdit
  /\ gcpAPIKey' = value
  /\ IF value # ""
     THEN /\ keyEdits' = [keyEdits EXCEPT ![NextFreeEdit] =
                            [pc |-> "listing", value |-> value]]
          /\ UNCHANGED providerModels
     ELSE /\ keyEdits' = [keyEdits EXCEPT ![NextFreeEdit] =
                            [pc |-> "saving", value |-> value]]
          /\ providerModels' = WithoutGcp(providerModels)
  /\ UNCHANGED <<pluginVars, groupVars, tabVars, libVars>>
  /\ UNCHANGED dialog
  /\ UNCHANGED cacheVars

\* ---- models.list() returns (main.ts 586-616)
GcpModelsListed(h) ==
  /\ keyEdits[h].pc = "listing"
  /\ providerModels' = WithGcp(providerModels, keyEdits[h].value)
  /\ keyEdits' = [keyEdits EXCEPT ![h].pc = "saving"]
  /\ UNCHANGED <<pluginVars, groupVars, tabVars, libVars, gcpAPIKey>>
  /\ UNCHANGED dialog
  /\ UNCHANGED cacheVars

\* ---- models.list() rejects: the catch block (main.ts 617-620)
GcpListFails(h) ==
  /\ keyEdits[h].pc = "listing"
  /\ keyEdits' = [keyEdits EXCEPT ![h].pc = "saving"]
  /\ UNCHANGED <<pluginVars, groupVars, tabVars, libVars, gcpAPIKey, providerModels>>
  /\ UNCHANGED dialog
  /\ UNCHANGED cacheVars

\* ---- the handler's saveSettings returns or rejects (main.ts 628-629)
GcpSaved(h) ==
  /\ keyEdits[h].pc = "saving"
  /\ keyEdits' = [keyEdits EXCEPT ![h].pc = "done"]
  /\ UNCHANGED <<indexingStatus, lastIndexedCount, settingsVars, storeVars, envVars,
                 runs, clean>>
  /\ UNCHANGED <<groupVars, tabVars, libVars, gcpAPIKey, providerModels>>
  /\ UNCHANGED dialog
  /\ UNCHANGED clientVars
  /\ \/ persisted' = Settings /\ SaveSettingsDone
     \/ UNCHANGED <<persisted, clientCache>>

NextGcp ==
  \/ \E value \in KeyValues : GcpKeyChange(value)
  \/ \E h \in KeyEdits : GcpModelsListed(h)
  \/ \E h \in KeyEdits : GcpListFails(h)
  \/ \E h \in KeyEdits : GcpSaved(h)

SpecGcp == Init /\ [][NextGcp]_vars

\* ------------------------------------- the fields a client is built from
\* saveSettings calls of the OpenAI key field one behaviour has in flight at
\* once
MaxSaves == 2

\* what the user types into the base URL field: nothing, or a URL
UrlValues == {"", "http://localhost:11434/v1/"}

\* what the user types into the OpenAI key field: nothing, or a key
OpenAIKeyValues == {"", "sk-1"}

\* the provider ids a data file holds for the embedding model: none, or one
\* of the two built-in ones
ProviderIds == {Unset, "openai", "gcp"}

\* ---- OpenAI API Key onChange (main.ts 538-540) up to its await
OpenAIKeyChange(value) ==
  /\ saving < MaxSaves
  /\ value # openaiAPIKey
  /\ openaiAPIKey' = value
  /\ saving' = saving + 1
  /\ UNCHANGED <<openaiBaseUrl, embeddingsModelProviderId, clientCache, obtained>>
  /\ UNCHANGED <<pluginVars, groupVars, tabVars, gcpVars, libVars, dialog>>

\* ---- the saveSettings of such a handler returns or rejects (main.ts
\* 427-434, 540-541)
FieldSaved(ok) ==
  /\ saving > 0
  /\ saving' = saving - 1
  /\ persisted' = IF ok THEN Settings ELSE persisted
  /\ UNCHANGED <<indexingStatus, lastIndexedCount, settingsVars, storeVars, envVars,
                 runs, clean>>
  /\ UNCHANGED <<groupVars, tabVars, gcpVars, libVars, dialog>>
  /\ UNCHANGED <<openaiAPIKey, openaiBaseUrl, embeddingsModelProviderId, obtained>>
  /\ IF ok THEN SaveSettingsDone ELSE UNCHANGED clientCache

\* the plugin after onload (main.ts 184-188): embeddings enabled, no vectors,
\* no keys yet, and any base URL and provider id in the data file
InitCache ==
  /\ indexingStatus = IDLE_STATUS
  /\ lastIndexedCount = 0
  /\ embeddingsEnabled = TRUE
  /\ embeddingsModelVersion = Unset
  /\ vectors = <<>>
  /\ persisted = [NoData EXCEPT !.enabled = TRUE]
  /\ stores = [g \in StoreIds |-> <<>>]
  /\ vectorStore = 0
  /\ docFp = [d \in Docs |-> "t1"]
  /\ maxConcurrency = 1
  /\ runs = [r \in Runs |-> FreeRun]
  /\ clean = FALSE
  /\ LibIdle
  /\ GroupsDefault
  /\ TabClosed
  /\ NoKey
  /\ NoDialog
  /\ openaiAPIKey = ""
  /\ openaiBaseUrl \in UrlValues
  /\ embeddingsModelProviderId \in ProviderIds
  /\ clientCache = Refreshed(EmptyCache, ClientSettings)
  /\ saving = 0
  /\ obtained = NoneObtained

\* a run up to the moment it has its client
RunSetup(r) ==
  \/ SaveAtStartFails(r)
  \/ RunSetupFails(r)
  \/ RunEnumerate(r)

NextCache ==
  \/ \E value \in OpenAIKeyValues : OpenAIKeyChange(value)
  \/ \E ok \in BOOLEAN : FieldSaved(ok)
  \/ \E value \in KeyValues : GcpKeyChange(value)
  \/ \E h \in KeyEdits : GcpModelsListed(h)
  \/ \E h \in KeyEdits : GcpListFails(h)
  \/ \E h \in KeyEdits : GcpSaved(h)
  \/ IndexStart
  \/ SingleNoteCommand(1)
  \/ \E r \in Runs : RunSetup(r)

SpecCache == InitCache /\ [][NextCache]_vars

\* ------------------------------------------- model values on their own
\* (each behaviour is one call of a helper on some arguments)
\* A string is a sequence of characters. Model values are strings over ':'
\* and one other character; a provider id the program knows is written as one
\* character that is not ':'.
MaxLen == 3

COLON == ":"
OPENAI == <<"openai">>
GCP == <<"gcp">>

\* the strings of up to n characters from alphabet
RECURSIVE StringsOf(_, _)
StringsOf(alphabet, n) ==
  IF n = 0 THEN {<<>>}
  ELSE LET shorter == StringsOf(alphabet, n - 1)
       IN shorter \cup {Append(w, c) : w \in shorter, c \in alphabet}

Strings == StringsOf({"a", COLON}, MaxLen)
ColonFree == StringsOf({"a"}, MaxLen) \cup {OPENAI, GCP}

\* value.lastIndexOf(ch)
LastIndexOfChar(value, ch) ==
  IF \E i \in 1..Len(value) : value[i] = ch
  THEN (CHOOSE i \in 1..Len(value) :
          value[i] = ch /\ \A j \in (i + 1)..Len(value) : value[j] # ch) - 1
  ELSE -1

\* value.indexOf(ch), from 0, -1 when absent
IndexOfChar(value, ch) ==
  IF \E i \in 1..Len(value) : value[i] = ch
  THEN (CHOOSE i \in 1..Len(value) :
          value[i] = ch /\ \A j \in 1..(i - 1) : value[j] # ch) - 1
  ELSE -1

\* value.includes(ch)
IncludesNothing(value, ch) == FALSE
Includes(value, ch) == \E i \in 1..Len(value) : value[i] = ch

\* value.substring(from, to) and value.substring(from), from 0
Substring(value, from, to) == SubSeq(value, from + 1, to)
SubstringFrom(value, from) == SubSeq(value, from + 1, Len(value))

\* providerId || 'openai': undefined and '' both give 'openai'
OrOpenAI(providerId) == IF providerId = <<>> THEN OPENAI ELSE providerId

\* formatModelValue (main.ts 93-95)
formatModelValue(providerId, modelName) == providerId \o <<COLON>> \o modelName

\* parseModelValue (main.ts 97-107)
parseModelValue(value) ==
  LET colonIndex == IndexOfChar(value, COLON)
  IN IF colonIndex = -1
     THEN [providerId |-> OPENAI, modelName |-> value]
     ELSE [providerId |-> Substring(value, 0, colonIndex),
           modelName |-> SubstringFrom(value, colonIndex + 1)]

\* migrateModelValue (main.ts 109-142); an absent currentProviderId is ''
migrateModelValue(oldValue, availableModels, currentProviderId) ==
  LET matchingModels == SelectSeq(availableModels, LAMBDA m : m.name = oldValue)
      preferred == SelectSeq(matchingModels,
                             LAMBDA m : m.providerId = currentProviderId)
  IN IF Includes(oldValue, COLON) THEN oldValue
     ELSE IF Len(matchingModels) = 0 THEN formatModelValue(OPENAI, oldValue)
     ELSE IF Len(matchingModels) = 1
       THEN formatModelValue(OrOpenAI(matchingModels[1].providerId), oldValue)
     ELSE IF currentProviderId # <<>> /\ Len(preferred) # 0
       THEN formatModelValue(OrOpenAI(preferred[1].providerId), oldValue)
     ELSE formatModelValue(OrOpenAI(matchingModels[1].providerId), oldValue)

\* the models availableEmbeddingModels / availableChatModels list
\* (llm_client.ts 37-81): a name, and the id of a built-in provider or none
AvailableModel == [name : {<<"a">>, <<"a", "a">>}, providerId : {<<>>, OPENAI, GCP}]
\* the names of models a user selects: they begin and end with a character
\* other than ':'
SelectableNames ==
  {n \in Strings : n # <<>> /\ n[1] # COLON /\ n[Len(n)] # COLON}

ModelLists ==
  {<<>>} \cup {<<m>> : m \in AvailableModel}
         \cup {<<m, n>> : m \in AvailableModel, n \in AvailableModel}

\* migrateModelSettings (main.ts 380-393): embeddingsModelVersion afterwards
MigratedVersion(version, availableModels, currentProviderId) ==
  IF version # <<>> /\ ~Includes(version, COLON)
  THEN migrateModelValue(version, availableModels, currentProviderId)
  ELSE version

\* getOpenAIClient (main.ts 341-345): the embeddings_model of the client
EmbeddingsModelOf(version) ==
  LET embeddingsModel == IF version = <<>> THEN <<unlabelledEmbeddingModel>>
                         ELSE version
  IN IF Includes(embeddingsModel, COLON)
     THEN parseModelValue(embeddingsModel).modelName
     ELSE embeddingsModel

\* ---- migrateModelValue is called, and called again on what it returned
MigrateModelValue(oldValue, availableModels, currentProviderId) ==
  /\ modelCall = NoModelCall
  /\ LET result == migrateModelValue(oldValue, availableModels, currentProviderId)
     IN modelCall' =
          [NoModelCall EXCEPT
             !.fn = "migrate", !.value = oldValue,
             !.availableModels = availableModels,
             !.currentProviderId = currentProviderId, !.result = result,
             !.again = migrateModelValue(result, availableModels, currentProviderId)]
  /\ UNCHANGED <<pluginVars, groupVars, tabVars, gcpVars, cacheVars, dialog>>
  /\ UNCHANGED <<collection, storeCall, embedCall>>

\* ---- a model is formatted as a dropdown value (main.ts 825) and the value
\* is parsed (main.ts 842)
FormatThenParse(providerId, modelName) ==
  /\ modelCall = NoModelCall
  /\ LET value == formatModelValue(providerId, modelName)
     IN modelCall' =
          [NoModelCall EXCEPT
             !.fn = "format", !.providerId = providerId, !.modelName = modelName,
             !.value = value, !.result = value, !.parsed = parseModelValue(value)]
  /\ UNCHANGED <<pluginVars, groupVars, tabVars, gcpVars, cacheVars, dialog>>
  /\ UNCHANGED <<collection, storeCall, embedCall>>

\* ---- parseModelValue is called on a stored value
ParseModelValue(value) ==
  /\ modelCall = NoModelCall
  /\ modelCall' = [NoModelCall EXCEPT !.fn = "parse", !.value = value,
                                     !.parsed = parseModelValue(value)]
  /\ UNCHANGED <<pluginVars, groupVars, tabVars, gcpVars, cacheVars, dialog>>
  /\ UNCHANGED <<collection, storeCall, embedCall>>

\* ---- the user's model modelName is in the data file, as the new-format
\* value of a provider or, saved by an earlier version, as the bare name; the
\* plugin loads it (main.ts 370) and builds a client (main.ts 374)
StoredModelLoaded(legacy, providerId, modelName, availableModels) ==
  /\ modelCall = NoModelCall
  /\ LET stored == IF legacy THEN modelName
                   ELSE formatModelValue(providerId, modelName)
         version == MigratedVersion(stored, availableModels, <<>>)
     IN modelCall' =
          [NoModelCall EXCEPT
             !.fn = IF legacy THEN "legacy" ELSE "stored",
             !.providerId = providerId, !.modelName = modelName,
             !.availableModels = availableModels,
             !.value = stored, !.again = version,
             !.result = EmbeddingsModelOf(version)]
  /\ UNCHANGED <<pluginVars, groupVars, tabVars, gcpVars, cacheVars, dialog>>
  /\ UNCHANGED <<collection, storeCall, embedCall>>

NextModel ==
  \/ \E v \in Strings, ms \in ModelLists, p \in {<<>>, OPENAI, GCP} :
       MigrateModelValue(v, ms, p)
  \/ \E p \in ColonFree, n \in Strings : FormatThenParse(p, n)
  \/ \E v \in Strings : ParseModelValue(v)
  \/ \E legacy \in BOOLEAN, p \in {OPENAI, GCP}, n \in SelectableNames,
        ms \in ModelLists :
       StoredModelLoaded(legacy, p, n, ms)

SpecModel == InitStore /\ [][NextModel]_vars

\* ===================================================================== claims
Draining(r) == runs[r].pc = "drain"
Terminal(t) == Pending(t) = {} /\ InFlight(t) = {}
\* the step in which the embedding call of note d of run r fails / returns
FailStep(r, d) == runs[r].tasks[d] = "inflight" /\ runs'[r].tasks[d] = "failed"
SucceedStep(r, d) == runs[r].tasks[d] = "inflight" /\ runs'[r].tasks[d] = "ok"
\* the step in which done() of run r resolves
DoneStep(r) == runs[r].pc = "drain" /\ runs'[r].pc = "save2"
\* the records a collection holds for note d
RecordsOf(s, d) == {rec \in SeqToSet(s) : rec.id = d}

\* C1: at every moment at most one indexing run that has submitted embedding
\* tasks is draining against one vector store; a start request issued while
\* a run drains never gives a second run with tasks on the same store.
C1_OneRunPerStore ==
  \A r1 \in Runs : \A r2 \in Runs :
    (r1 # r2 /\ Draining(r1) /\ Draining(r2) /\ runs[r1].store = runs[r2].store)
      => (Submitted(runs[r1].tasks) = {} \/ Submitted(runs[r2].tasks) = {})

\* C2: in every run the number of embedding calls in flight never exceeds
\* maxConcurrency, and the window is kept full while unstarted tasks remain
\* (a task waits only because the window is full).
C2_WindowBound ==
  \A r \in Runs :
    /\ Cardinality(InFlight(runs[r].tasks)) <= maxConcurrency
    /\ Pending(runs[r].tasks) # {}
         => Cardinality(InFlight(runs[r].tasks)) = maxConcurrency

\* a run whose tasks wait for a slot: the window is full, one is not admitted
C2_Witness ==
  \E r \in Runs :
    /\ Draining(r)
    /\ Cardinality(InFlight(runs[r].tasks)) = maxConcurrency
    /\ Pending(runs[r].tasks) # {}

\* the step in which the call of note d fails changes no store and no stored
\* vector, leaves the run draining, changes no sibling task except admitting
\* a waiting one, and leaves d in need of re-indexing
C3_FailStepIsolated ==
  \A r \in Runs : \A d \in Docs :
    FailStep(r, d) =>
      /\ stores' = stores
      /\ vectors' = vectors
      /\ runs'[r].pc = runs[r].pc
      /\ \A e \in Docs \ {d} :
           \/ runs'[r].tasks[e] = runs[r].tasks[e]
           \/ runs[r].tasks[e] = "pending" /\ runs'[r].tasks[e] = "inflight"
      /\ NeedsReindex(StoreOf(runs[r].store)', d, docFp'[d], runs'[r].model)

\* while a run drains, no step changes the record of a note whose call has
\* not succeeded: at done() it is what it was when the run started
C3_UnsucceededRecordKept ==
  \A r \in Runs : \A d \in Docs :
    (Draining(r) /\ runs'[r].pc \in {"drain", "save2"} /\ runs'[r].tasks[d] # "ok")
      => RecordsOf(StoreOf(runs[r].store)', d) = RecordsOf(StoreOf(runs[r].store), d)

\* when done() has resolved after a failure, every note whose call succeeded
\* has its up-to-date record in the store
C3_SucceededStored ==
  \A r \in Runs :
    (runs[r].pc = "save2" /\ Failed(runs[r].tasks) # {})
      => \A d \in Succeeded(runs[r].tasks) :
           /\ IndexOf(StoreOf(runs[r].store), d) # 0
           /\ ~NeedsReindex(StoreOf(runs[r].store), d, docFp[d], runs[r].model)

\* C3: a failed embedding call of note D does not reach the sibling tasks or
\* done(): the failing step touches no store and no sibling, the record of D
\* stays what it was before the run (so D still needs re-indexing), done()
\* resolves, and every note whose call succeeded is upserted.
C3_FaultIsolation ==
  /\ [][C3_FailStepIsolated]_vars
  /\ [][C3_UnsucceededRecordKept]_vars
  /\ []C3_SucceededStored

\* done() has resolved for a run in which one call failed and one succeeded
C3_Witness ==
  \E r \in Runs :
    /\ runs[r].pc = "save2"
    /\ Failed(runs[r].tasks) # {}
    /\ Succeeded(runs[r].tasks) # {}

\* done() has resolved only when every submitted task is terminal
C4_DoneOnlyWhenTerminal ==
  \A r \in Runs : runs[r].pc = "save2" => Terminal(runs[r].tasks)

\* once every submitted task is terminal - at once when none was submitted -
\* done() can resolve
C4_ResolvesWhenTerminal ==
  \A r \in Runs :
    (Draining(r) /\ Terminal(runs[r].tasks)) => ENABLED DoneResolves(r)

\* C4: when every embedding call that is issued returns or fails, done() of
\* every draining run eventually resolves; it resolves exactly when every
\* submitted task is terminal (at once when no task was submitted), and every
\* submitted task is eventually admitted.
C4_DoneResolves ==
  /\ []C4_DoneOnlyWhenTerminal
  /\ []C4_ResolvesWhenTerminal
  /\ \A r \in Runs : Draining(r) ~> ~Draining(r)
  /\ \A r \in Runs : \A d \in Docs :
       (runs[r].tasks[d] = "pending") ~> (runs[r].tasks[d] # "pending")

\* done() has resolved for a run of NumDocs tasks of which one failed
C4_Witness ==
  \E r \in Runs :
    /\ runs[r].pc = "save2"
    /\ Submitted(runs[r].tasks) = Docs
    /\ Failed(runs[r].tasks) # {}

\* C5: every run returns the status to idle, whichever step of it fails: when
\* no run is under way any more, indexingStatus is "idle".
C5_StatusBackToIdle == Quiet => indexingStatus = IDLE_STATUS

\* the step in which done() of a run resolves leaves the collection with the
\* notes it held when the run started plus the notes that succeeded
C6_AtDone ==
  \A r \in Runs :
    DoneStep(r) =>
      /\ Ids(StoreOf(vectorStore))' = runs[r].pre \cup Succeeded(runs[r].tasks)
      /\ Ids(vectors)' = runs[r].pre \cup Succeeded(runs[r].tasks)

\* C6: when done() of a run resolves, the plugin's vector collection (the
\* records of plugin.vectorStore, and settings.vectors, which persists them)
\* holds a record for exactly the notes it held when the run started plus
\* every note whose task succeeded in the run - also when the settings tab
\* was closed or the vector array was cleared during the run.
C6_NoLostUpsert == [][C6_AtDone]_vars

\* the step in which a run enumerates its files, after a full run in which
\* every task succeeded and with nothing changed since
C7_SecondRunStep ==
  \A r \in Runs :
    (clean /\ runs[r].pc = "save1" /\ runs'[r].pc = "drain")
      => /\ Submitted(runs'[r].tasks) = {}
         /\ stores' = stores
         /\ vectors' = vectors

\* C7: a run that starts after a full run in which every task succeeded, with
\* no note and no configured model changed since, submits no embedding task
\* and leaves every store and settings.vectors as they are.
C7_Incremental == [][C7_SecondRunStep]_vars

\* a second run that found every note up to date
C7_Witness ==
  \E r \in Runs :
    /\ clean
    /\ Draining(r)
    /\ \A d \in Docs : runs[r].tasks[d] = "skip"
    /\ Len(StoreOf(vectorStore)) = NumDocs

\* needsReindex is true exactly when the store has no record for the
\* identity, or a record of it with another fingerprint or another model
C8_Iff ==
  \A g \in StoreIds : \A d \in Docs : \A fp \in Fps : \A m \in Models :
    NeedsReindex(stores[g], d, fp, m)
      <=> \/ d \notin Ids(stores[g])
          \/ \E rec \in SeqToSet(stores[g]) :
               rec.id = d /\ (rec.fp # fp \/ rec.model # m)

\* right after the upsert of a succeeded task, needsReindex is false for it
C8_AfterUpsert ==
  \A r \in Runs : \A d \in Docs :
    SucceedStep(r, d) =>
      ~NeedsReindex(StoreOf(runs[r].store)', d, docFp[d], runs[r].model)

\* C8: needsReindex(identity, fingerprint) is true exactly when the store has
\* no record for identity, or the stored fingerprint differs, or the stored
\* model differs from the configured one; and it is false right after a
\* successful upsert of that identity with that fingerprint under that model.
C8_NeedsReindex == []C8_Iff /\ [][C8_AfterUpsert]_vars

\* the store holds a record of a note that was edited since: same identity,
\* other fingerprint
C8_Witness ==
  \E d \in Docs :
    /\ d \in Ids(StoreOf(vectorStore))
    /\ NeedsReindex(StoreOf(vectorStore), d, docFp[d], ConfiguredModel)

\* a step taken while a run started by indexVectorStores drains
C9_Step ==
  \A r \in Runs :
    (runs[r].kind = "full" /\ Draining(r) /\ runs'[r].pc = "drain")
      => /\ lastIndexedCount' >= lastIndexedCount
         /\ \A d \in Docs :
              (FailStep(r, d) \/ SucceedStep(r, d))
                => lastIndexedCount' = lastIndexedCount + 1

\* C9: while a run started by indexVectorStores drains, lastIndexedCount
\* never decreases, and each completed task of the run raises it by one,
\* whatever else happens meanwhile.
C9_ProgressMonotone == [][C9_Step]_vars

\* the step in which a run shows its notice while no other handler
\* activation is under way
C10_Step ==
  \A r \in Runs :
    /\ runs[r].pc = "save2"
    /\ runs'[r].pc = "reported"
    /\ \A q \in Runs \ {r} : runs[q].pc \in {"free", "done", "reported"}
    => lastIndexedCount = Cardinality(Succeeded(runs[r].tasks))

\* C10: the count in the notice "Indexed N notes" of a run is the number of
\* notes whose task succeeded in that run; failed tasks are not counted.
\* (Stated for a run that ends with no other run under way: the notify of an
\* overlapping run writes the same count.)
C10_ReportedIsIndexed == [][C10_Step]_vars

\* the step in which a confirmed model change runs clearVectorArray
ConfirmStep == \E r \in Runs : runs[r].pc = "free" /\ runs'[r].pc = "presave"

\* the switch empties the collection, and the upsert of a task whose run was
\* started under another model than the configured one adds nothing to it
C11_Step ==
  /\ ConfirmStep => (vectors' = <<>> /\ StoreOf(vectorStore)' = <<>>)
  /\ \A r \in Runs : \A d \in Docs :
       (SucceedStep(r, d) /\ runs[r].model # ConfiguredModel)
         => /\ vectors' = vectors
            /\ StoreOf(vectorStore)' = StoreOf(vectorStore)

\* C11: after a confirmed switch of the embedding model the plugin's vector
\* collection (plugin.vectorStore's records and settings.vectors) holds no
\* vector of the previous model: it is emptied at the switch, and no task of
\* a run started under the previous model adds a vector to it afterwards.
C11_NoPreviousModelVector == [][C11_Step]_vars

\* the last call on the store was a query
Asked == storeCall.op = "query"
\* the records of the collection a query for model m looks at
MatchingRecords(m) == {rec \in SeqToSet(collection) : rec.model = m}

\* C12: querySimilar(queryVector, k, m) returns only identities whose stored
\* modelName is m: a vector stored under another model is never in the
\* result, even when vectors of both models are in the store.
C12_ModelIsolation ==
  Asked =>
    \A i \in 1..Len(storeCall.result) :
      /\ \E rec \in MatchingRecords(storeCall.model) : rec.id = storeCall.result[i].id
      /\ \A rec \in SeqToSet(collection) :
           rec.id = storeCall.result[i].id => rec.model = storeCall.model

\* a query that returned a record of its model from a store that also holds a
\* record of the other model
C12_Witness ==
  /\ Asked
  /\ Len(storeCall.result) > 0
  /\ \E rec \in SeqToSet(collection) : rec.model # storeCall.model

\* the identities a query returned
ResultIds == {storeCall.result[i].id : i \in 1..Len(storeCall.result)}

\* what a query returned: at most k entries, as many as there are matching
\* records up to k, each a matching record with its score, no record twice,
\* in non-increasing order of score, no left-out record scoring higher than a
\* returned one, and equal scores in insertion order (among the returned
\* entries and between a returned and a left-out record)
C13_Ranked ==
  Asked =>
    LET res == storeCall.result
        q == storeCall.query
        M == MatchingRecords(storeCall.model)
    IN /\ Len(res) <= storeCall.k
       /\ Len(res) = IF storeCall.k < Cardinality(M) THEN storeCall.k ELSE Cardinality(M)
       /\ \A i \in 1..Len(res) :
            \E rec \in M : rec.id = res[i].id /\ res[i].score = Score(q, rec.vector)
       /\ \A i \in 1..Len(res) : \A j \in 1..Len(res) :
            i < j => /\ res[i].id # res[j].id
                     /\ ~Higher(res[j].score, res[i].score)
                     /\ SameScore(res[i].score, res[j].score)
                          => IndexOf(collection, res[i].id) < IndexOf(collection, res[j].id)
       /\ \A rec \in M : \A i \in 1..Len(res) :
            rec.id \notin ResultIds
              => /\ ~Higher(Score(q, rec.vector), res[i].score)
                 /\ SameScore(Score(q, rec.vector), res[i].score)
                      => IndexOf(collection, res[i].id) < IndexOf(collection, rec.id)

\* a query repeated on the unchanged store returns the same sequence
C13_Repeatable ==
  (/\ Asked
   /\ storeCall'.op = "query"
   /\ collection' = collection
   /\ storeCall'.query = storeCall.query
   /\ storeCall'.k = storeCall.k
   /\ storeCall'.model = storeCall.model)
    => storeCall'.result = storeCall.result

\* C13: querySimilar(queryVector, k, m) returns at most k results in
\* non-increasing order of score, the k highest-scoring matching records,
\* records of equal score in their insertion order, and the same sequence
\* when the query is repeated on the unchanged store.
C13_TopKStable == []C13_Ranked /\ [][C13_Repeatable]_vars

\* a query that had to cut between two matching records of equal score
C13_Witness ==
  /\ Asked
  /\ Len(storeCall.result) > 0
  /\ \E rec \in MatchingRecords(storeCall.model) :
       /\ rec.id \notin ResultIds
       /\ SameScore(Score(storeCall.query, rec.vector),
                    storeCall.result[Len(storeCall.result)].score)

\* no two records of the collection have the same identity
C14_OnePerIdentity ==
  \A i \in 1..Len(collection) : \A j \in 1..Len(collection) :
    i # j => collection[i].id # collection[j].id

\* upsert of an identity that is present replaces its record where it is and
\* leaves the others; upsert of an absent identity appends; remove of an
\* absent identity changes nothing, remove of a present one deletes exactly
\* its record; clear empties the collection
C14_Step ==
  /\ storeCall'.op = "upsert" =>
       LET rec == storeCall'.rec
           i == IndexOf(collection, rec.id)
       IN IF i = 0 THEN collection' = Append(collection, rec)
          ELSE /\ Len(collection') = Len(collection)
               /\ collection'[i] = rec
               /\ \A j \in 1..Len(collection) : j # i => collection'[j] = collection[j]
  /\ storeCall'.op = "remove" =>
       IF IndexOf(collection, storeCall'.id) = 0 THEN collection' = collection
       ELSE /\ Len(collection') = Len(collection) - 1
            /\ storeCall'.id \notin Ids(collection')
            /\ Ids(collection') = Ids(collection) \ {storeCall'.id}
  /\ storeCall'.op = "clear" => collection' = <<>>

\* C14: after any sequence of upsert, remove and clear the store holds at
\* most one record per identity: upsert of an identity already present
\* replaces that record instead of adding a second one, and remove of an
\* absent identity changes nothing.
C14_NoDuplicate == []C14_OnePerIdentity /\ [][C14_Step]_vars

\* an upsert has just replaced the record of an identity that was present:
\* the collection is full and its first record is the one just upserted
C14_Witness ==
  /\ storeCall.op = "upsert"
  /\ Len(collection) = NumDocs
  /\ collection[1] = storeCall.rec

\* ---- C15
\* C15: a generateEmbeddings call whose text is missing or empty is rejected
\* and has issued no remote request, whatever model name and client it got.
C15_NoTextRejected ==
  (embedCall.settled # "none" /\ embedCall.text \in {"undefined", ""})
    => (embedCall.settled = "rejected" /\ embedCall.requests = 0)

C15_Witness ==
  /\ embedCall.settled = "rejected"
  /\ embedCall.text = ""
  /\ embedCall.modelName = OPENAI_EMBEDDING_3_SMALL
  /\ embedCall.client.present
  /\ embedCall.requests = 0

\* ---- C16
\* C16: a generateEmbeddings call with a text and no client is rejected by
\* that one call, and no remote request has been issued for it.
C16_NoClientRejected ==
  (embedCall.settled # "none" /\ embedCall.text = "note" /\ ~embedCall.client.present)
    => (embedCall.settled = "rejected" /\ embedCall.requests = 0)

C16_Witness ==
  /\ embedCall.settled = "rejected"
  /\ embedCall.text = "note"
  /\ embedCall.modelName = OPENAI_EMBEDDING_3_LARGE
  /\ ~embedCall.client.present
  /\ embedCall.error = "client not initialized"

\* ---- C17
\* a === b in JavaScript: the two zeros are the same number
SameNumber(a, b) == a.mag = b.mag /\ (a.mag > 0 => a.neg = b.neg)

\* every returned component is a multiple of 10^-d for the client's precision
\* d, which is three places (256 units) for a client built without one
C17_Decimals ==
  embedCall.settled = "resolved"
    => \A i \in DOMAIN embedCall.vector :
         /\ embedCall.vector[i].mag % (256000 \div (10 ^ embedCall.client.config.quantization_decimals)) = 0
         /\ "quantization_decimals" \notin DOMAIN embedCall.client.given
              => embedCall.vector[i].mag % 256 = 0

\* two calls that got the same response under the same precision
C17_SameAgain ==
  (/\ embedCall.settled = "resolved"
   /\ embedCall'.settled = "resolved"
   /\ embedCall'.reply = embedCall.reply
   /\ embedCall'.client.config.quantization_decimals
        = embedCall.client.config.quantization_decimals)
    => embedCall'.vector = embedCall.vector

\* a call whose response is the vector the call before returned
C17_Requantized ==
  (/\ embedCall.settled = "resolved"
   /\ embedCall'.settled = "resolved"
   /\ embedCall'.reply = embedCall.vector
   /\ embedCall'.client.config.quantization_decimals
        = embedCall.client.config.quantization_decimals)
    => \A i \in DOMAIN embedCall.vector :
         SameNumber(embedCall'.vector[i], embedCall.vector[i])

NoVectorsEntry == "vectors" \notin OwnKeys(persisted)

\* what loadSettings leaves behind for such a file: no vector, and the model
\* and the enabled flag as the file has them, unset and false where it has none
C18_Step ==
  (NoVectorsEntry /\ LoadSettings)
    => /\ vectors' = <<>>
       /\ embeddingsModelVersion' = ModelOf(persisted)
       /\ embeddingsEnabled' =
            IF "enabled" \in OwnKeys(persisted) THEN persisted.enabled ELSE FALSE
       /\ (OwnKeys(persisted) \cap {"model", "enabled"} = {})
            => (embeddingsModelVersion' = Unset /\ embeddingsEnabled' = FALSE)

C19_IndexedGroupValid ==
  0 <= indexedNoteGroup /\ indexedNoteGroup < Len(noteGroups)

\* ---- C20
\* the indexVectorStores calls that passed the guard and have not reached
\* their finally block
InIndexing ==
  {r \in Runs : runs[r].kind = "full" /\ runs[r].pc \in {"save1", "drain"}}

\* a call passes the guard only when no other call is in the indexing state
C20_Enter ==
  \A r \in Runs :
    (runs[r].pc = "free" /\ runs'[r].pc = "save1" /\ runs'[r].kind = "full")
      => InIndexing = {}

\* a call that does not pass the guard leaves everything as it is
C20_Rejected ==
  IndexRejected =>
    UNCHANGED <<indexingStatus, lastIndexedCount, vectors, stores, vectorStore, runs>>

C21_IndexingWhileTasksRun ==
  (\E r \in Runs : Draining(r) /\ ~Terminal(runs[r].tasks))
    => indexingStatus = INDEXING_STATUS

\* ---- C22
\* the listeners on the bus that are a copy of one of the tab's callbacks
CopiesOf(kind) == {i \in DOMAIN bus : bus[i].callback.kind = kind}

C22_AtMostOneCopy ==
  /\ \A kind \in {"embeddingModelsUpdateCallback", "indexUpdateCallback",
                  "copilotModelsUpdateCallback"} :
       Cardinality(CopiesOf(kind)) <= 1
  /\ Len(bus) <= 3

C22_NoneAfterHide == Hide => bus' = <<>>

\* C22: the event bus holds at most one copy of each callback the settings
\* tab registers, three listeners at most, whatever the sequence of display()
\* and hide() calls, and none of them when hide() has run.
C22_NoListenerAccumulation ==
  []C22_AtMostOneCopy /\ [][C22_NoneAfterHide]_vars

\* the tab was rendered with embeddings disabled, then again by the toggle's
\* handler with embeddings enabled
C22_Witness ==
  /\ Len(bus) = 3
  /\ bus = eventListeners
  /\ embeddingsEnabled
  /\ Len(noteGroups) > 1

\* ---- C23
\* every activation of the key field's change handler has finished
KeyEditsFinished == \A h \in KeyEdits : keyEdits[h].pc \in {"free", "done"}

\* C23: once every GCP-key change handler has finished, providerModels has a
\* gcp entry only if the GCP key is not empty.
C23_NoModelsWithoutKey ==
  (KeyEditsFinished /\ "gcp" \in DOMAIN providerModels) => gcpAPIKey # ""

\* ---- C24
\* the confirmation just answered was declined, or confirmed for the value
\* that was current
NothingToOverwrite ==
  /\ dialog' # dialog
  /\ \/ ~dialog'.confirmed
     \/ dialog'.field = "model" /\ dialog'.model = embeddingsModelVersion
     \/ dialog'.field = "group" /\ dialog'.group = indexedNoteGroup

C24_Step ==
  NothingToOverwrite
    => UNCHANGED <<embeddingsModelVersion, embeddingsModelProviderId, indexedNoteGroup,
                   vectors, stores, vectorStore, lastIndexedCount, indexingStatus,
                   runs, persisted>>

\* C24: a declined confirmation, and a confirmed one for the current value,
\* change neither the embedding model, the indexed note group, the vectors,
\* lastIndexedCount nor indexingStatus, and start no indexing run.
C24_DeclineChangesNothing == [][C24_Step]_vars

\* a change of model was declined with vectors stored and counted
C24_Witness ==
  /\ dialog.field = "model"
  /\ ~dialog.confirmed
  /\ dialog.model # embeddingsModelVersion
  /\ vectors # <<>>
  /\ lastIndexedCount > 0
  /\ \A r \in Runs : runs[r].pc = "free"

\* ---- C25
\* the group settings.indexedNoteGroup denotes, MaxGroups + 1 when none
Denoted ==
  IF indexedNoteGroup \in 0..(Len(noteGroups) - 1)
  THEN noteGroups[indexedNoteGroup + 1] ELSE MaxGroups + 1

\* a step that adds or deletes a note group while vectors are stored, and
\* after which settings.indexedNoteGroup still denotes a group
C25_Step ==
  (noteGroups' # noteGroups /\ vectors # <<>> /\ Denoted' # MaxGroups + 1)
    => (Denoted' = Denoted \/ vectors' = <<>>)

\* C25: adding or deleting a note group never makes settings.indexedNoteGroup
\* denote another group than before while the vectors are kept.

C25_GroupChangesOnlyWhenConfirmed == [][C25_Step]_vars

\* the client a run is handed by getOpenAIClient(providerId) has the API key,
\* base URL and embeddings model the settings prescribe for providerId at that
\* moment
C26_ClientAsPrescribed == obtained.client = obtained.prescribed

\* within a cache generation a cached client stays the client of its id
CacheKept ==
  \A id \in DOMAIN clientCache :
    id \in DOMAIN clientCache' /\ clientCache'[id] = clientCache[id]

\* every cached client is one built from the settings as they are
CacheFresh ==
  \A id \in DOMAIN clientCache : clientCache[id] = BuildClient(id, ClientSettings)

\* C26: a run is never handed a client with a stale configuration: the client
\* getOpenAIClient(providerId) returns has the key, base URL and model the
\* current settings prescribe; a step either keeps every cached client or
\* leaves only clients built from the current settings.
C26_NoStaleClient ==
  /\ []C26_ClientAsPrescribed
  /\ [][CacheKept \/ CacheFresh']_vars

\* a run was handed a client that carries a key typed in after onload
C26_Witness ==
  /\ obtained.id # "none"
  /\ obtained.client.apiKey # ""
  /\ obtained.client = obtained.prescribed

\* the value has no ':'
NoColon(value) == \A i \in 1..Len(value) : value[i] # COLON

\* C27: the client is configured with the model name the user selected,
\* whether the data file holds it as 'providerId:modelName' or as the bare
\* name an earlier version saved, also for names that contain ':'.
C27_ClientUsesSelectedModel ==
  modelCall.fn \in {"stored", "legacy"} => modelCall.result = modelCall.modelName

\* C28: the result of migrateModelValue contains ':', migrating it again
\* returns it unchanged, and for an input without ':' what follows the first
\* ':' of the result is the input.
C28_MigrateIdempotent ==
  modelCall.fn = "migrate" =>
    /\ ~NoColon(modelCall.result)
    /\ modelCall.again = modelCall.result
    /\ NoColon(modelCall.value) =>
         \E i \in 1..Len(modelCall.result) :
           /\ modelCall.result[i] = COLON
           /\ NoColon(SubSeq(modelCall.result, 1, i - 1))
           /\ SubSeq(modelCall.result, i + 1, Len(modelCall.result)) = modelCall.value

\* a bare name that two listed models carry was migrated to the current
\* provider, which is not the first match
C28_Witness ==
  /\ modelCall.fn = "migrate"
  /\ modelCall.value = <<"a">>
  /\ Len(modelCall.availableModels) = 2
  /\ modelCall.availableModels[1] = [name |-> <<"a">>, providerId |-> OPENAI]
  /\ modelCall.availableModels[2] = [name |-> <<"a">>, providerId |-> GCP]
  /\ modelCall.currentProviderId = GCP
  /\ modelCall.result = <<"gcp", COLON, "a">>
  /\ modelCall.again = modelCall.result

\* C29: parseModelValue(formatModelValue(providerId, modelName)) is
\* {providerId, modelName} for a providerId without ':' and any modelName; a
\* value without ':' parses to provider 'openai' and the whole value as name.
C29_ParseInvertsFormat ==
  /\ modelCall.fn = "format" =>
       modelCall.parsed = [providerId |-> modelCall.providerId,
                           modelName |-> modelCall.modelName]
  /\ (modelCall.fn = "parse" /\ NoColon(modelCall.value)) =>
       modelCall.parsed = [providerId |-> OPENAI, modelName |-> modelCall.value]

\* a model name with two ':' was formatted and parsed back
C29_Witness ==
  /\ modelCall.fn = "format"
  /\ modelCall.providerId = GCP
  /\ modelCall.modelName = <<"a", COLON, COLON>>
  /\ modelCall.parsed.modelName = modelCall.modelName

====
